---- MODULE Spec2Model ----
(***************************************************************************)
(* A model of the DV6 parser (class DV6Parser with DV6Line, DV6HeadLine    *)
(* and DV6Element).  Text is a sequence of one-character strings, so that  *)
(* the regular expressions of the source are computed character by        *)
(* character.  A JavaScript property that is undefined is a field that is  *)
(* absent from the record.  Arrays that the code mutates through a         *)
(* reference (the children of a DV6HeadLine) live in `heap'.               *)
(***************************************************************************)
EXTENDS Integers, Sequences, FiniteSets, TLC

VARIABLES
  dv6,              \* DV6Parser._dv6 / the argument of dv6_to_lines
  pc,               \* position of the run of parse(): start, split, lift, toplevel, done, thrown
  lines,            \* const lines of parse()
  index,            \* loop index of flat_to_structured_lines (0-based)
  structure_stack,  \* structure_stack of flat_to_structured_lines
  heap,             \* the children arrays, by reference
  parsers,          \* the DV6Parser instances: _errors, _warnings, _result
  thrown,           \* the exception that left parse(), if any
  elements,         \* the argument of parse_properties; the children of parse_top_children
  properties,       \* const properties of parse_properties
  contents_begin,   \* let contents_begin_index of parse_top_children
  extended_begin    \* let extended_begin_index of parse_top_children

vars == <<dv6, pc, lines, index, structure_stack, heap, parsers, thrown, elements,
          properties, contents_begin, extended_begin>>

----------------------------------------------------------------------------
(* Characters and the character classes of the regular expressions.        *)

Tab == "\t"
LF == "\n"
CR == "\r"
Backslash == "\\"

Digit == {"0", "1", "2", "3", "4", "5", "6", "7", "8", "9"}

Upper == {"A", "B", "C", "D", "E", "F", "G", "H", "I", "J", "K", "L", "M",
          "N", "O", "P", "Q", "R", "S", "T", "U", "V", "W", "X", "Y", "Z"}

Lower == {"a", "b", "c", "d", "e", "f", "g", "h", "i", "j", "k", "l", "m",
          "n", "o", "p", "q", "r", "s", "t", "u", "v", "w", "x", "y", "z"}

\* [A-Za-z]
Alpha == Upper \cup Lower

\* [A-Za-z0-9]
AlphaNum == Alpha \cup Digit

\* \w
WordChar == AlphaNum \cup {"_"}

\* \s, as far as the characters of the model go
SpaceChar == {" ", Tab, LF, CR}

\* . matches every character but a line terminator
IsDot(c) == c \notin {LF, CR}

\* String.prototype.startsWith
startsWith(s, p) == Len(s) >= Len(p) /\ SubSeq(s, 1, Len(p)) = p

\* String.prototype.endsWith
endsWith(s, p) == Len(s) >= Len(p) /\ SubSeq(s, Len(s) - Len(p) + 1, Len(s)) = p

\* s from position i (1-based) to its end
From(s, i) == SubSeq(s, i, Len(s))

\* the first position >= i of s whose character is not in class, Len(s)+1 if none
RECURSIVE SkipClass(_, _, _)
SkipClass(s, i, class) ==
  IF i <= Len(s) /\ s[i] \in class THEN SkipClass(s, i + 1, class) ELSE i

\* every character of s is matched by .
AllDot(s) == \A i \in 1..Len(s) : IsDot(s[i])

\* the first position >= i of s holding character c, 0 if none
RECURSIVE IndexOf(_, _, _)
IndexOf(s, c, i) ==
  IF i > Len(s) THEN 0 ELSE IF s[i] = c THEN i ELSE IndexOf(s, c, i + 1)

\* String.prototype.split with a one-character separator: split(/,/), split(/;/)
RECURSIVE split(_, _)
split(s, sep) ==
  LET k == IndexOf(s, sep, 1)
  IN IF k = 0 THEN <<s>>
     ELSE <<SubSeq(s, 1, k - 1)>> \o split(From(s, k + 1), sep)

\* dv6.split(/\r?\n/): a line ends at LF, and a CR right before that LF goes with it
RECURSIVE splitLines(_)
splitLines(s) ==
  LET k == IndexOf(s, LF, 1)
  IN IF k = 0 THEN <<s>>
     ELSE LET e == IF k > 1 /\ s[k - 1] = CR THEN k - 2 ELSE k - 1
          IN <<SubSeq(s, 1, e)>> \o splitLines(From(s, k + 1))

----------------------------------------------------------------------------
(* DV6Line, DV6HeadLine, and the diagnostics.                              *)

LineFields == {"line_index", "last_line_index", "indent", "content"}

\* new DV6Line({line_index, last_line_index, indent, content}): the four
\* properties are copied; one the argument lacks is undefined (absent)
DV6Line(o) == [f \in (DOMAIN o \cap LineFields) |-> o[f]]

\* element instanceof DV6HeadLine
IsHeadLine(e) == "children" \in DOMAIN e

\* new DV6HeadLine with a default children array that is made once and shared
\* by every call (reference 1 of the heap)
DV6HeadLine_shared_default(h, line) ==
  [heap |-> IF Len(h) = 0 THEN <<<<>>>> ELSE h,
   obj |-> [f \in ((DOMAIN line \cap LineFields) \cup {"children"}) |->
              IF f = "children" THEN 1 ELSE line[f]]]

\* new DV6HeadLine(line = {}, children = []): a DV6Line of line's properties
\* whose children is a fresh empty array of the heap
DV6HeadLine(h, line) ==
  [heap |-> Append(h, <<>>),
   obj |-> [f \in ((DOMAIN line \cap LineFields) \cup {"children"}) |->
              IF f = "children" THEN Len(h) + 1 ELSE line[f]]]

\* a message without and with an interpolated `[${...}]'
Message(text) == [text |-> text, arg |-> <<>>]

MessageWith(text, arg) == [text |-> text, arg |-> arg]

\* a property that is defined and truthy (a number other than 0)
Truthy(o, f) == f \in DOMAIN o /\ o[f] # 0

\* DV6Line.error(message): the line description is line_index, or
\* line_index-last_line_index when last_line_index is truthy
error(this, message) ==
  [desc |-> IF Truthy(this, "last_line_index")
            THEN <<this.line_index, this.last_line_index>>
            ELSE <<this.line_index>>,
   message |-> message]

\* get is_word
is_word(this) == startsWith(this.content, <<"#">>)

\* is_property without the anchor and the class of its regex: /:/
is_property_colon_anywhere(this) == IndexOf(this.content, ":", 1) > 0

\* get is_property: /^[A-Za-z0-9]+:/
is_property(this) ==
  LET e == SkipClass(this.content, 1, AlphaNum)
  IN e > 1 /\ e <= Len(this.content) /\ this.content[e] = ":"

\* get is_extended: /^\/\//
is_extended(this) == startsWith(this.content, <<"/", "/">>)

----------------------------------------------------------------------------
(* The Line Splitter: DV6Parser.dv6_to_lines.                              *)

\* the end (the position after the last character taken) of the greedy loop
\* ((?:\\\\|\\\r?\n?|[^\\])*) of line_re, started at position i: an escaped
\* backslash, or a backslash with an optional CR and an optional LF, or any
\* character that is no backslash
RECURSIVE LineReBody(_, _)
LineReBody(s, i) ==
  IF i > Len(s) THEN i
  ELSE IF s[i] = Backslash
       THEN IF i + 1 <= Len(s) /\ s[i + 1] = Backslash
            THEN LineReBody(s, i + 2)
            ELSE LET j == IF i + 1 <= Len(s) /\ s[i + 1] = CR THEN i + 2 ELSE i + 1
                     k == IF j <= Len(s) /\ s[j] = LF THEN j + 1 ELSE j
                 IN LineReBody(s, k)
       ELSE LineReBody(s, i + 1)

\* raw_line.match(line_re), line_re = /^(\t*)((?:\\\\|\\\r?\n?|[^\\])*)(\\)?$/:
\* g1 the leading tabs, g2 the body, g3 whether the group (\\)? took a backslash.
\* The loop of the body takes every character, a lone backslash included (by
\* its second alternative), so the first match the engine finds ends the body
\* at the end of the line.
line_re_match(raw_line) ==
  LET b == SkipClass(raw_line, 1, {Tab})
      e == LineReBody(raw_line, b)
  IN [g1 |-> SubSeq(raw_line, 1, b - 1),
      g2 |-> SubSeq(raw_line, b, e - 1),
      g3 |-> e <= Len(raw_line) /\ raw_line[e] = Backslash]

\* the two diagnostics of the Line Splitter
\* (`インデントが直前の継続行と不一致です', `インデントが直前の行から2レベル以上上がっています')
MsgContinuationIndent == "continuation indent differs from the continued line"
MsgIndentJump == "indent rises by 2 or more levels from the previous line"

\* the text of undefined, as `undefined + string' makes it
UndefinedText == <<"u", "n", "d", "e", "f", "i", "n", "e", "d">>

\* previous_line.line += more: the property `line' (not `content') is read,
\* undefined at first, and set
AppendToLineProperty(previous_line, more) ==
  ("line" :> ((IF "line" \in DOMAIN previous_line
               THEN previous_line.line ELSE UndefinedText) \o more))
  @@ previous_line

\* previous_line.last_line_index = line_index
SetLastLineIndex(previous_line, line_index) ==
  ("last_line_index" :> line_index) @@ previous_line

\* the if (line_continued) ... else ... of the loop of dv6_to_lines, for the
\* match result of raw_lines[line_index]; st = [lines, errors, line_continued]
SplitLineOrContinuation(st, result, line_index) ==
  LET n == Len(st.lines)
      line == DV6Line([line_index |-> line_index, indent |-> Len(result.g1),
                       content |-> result.g2])
  IN IF st.line_continued
     THEN [lines |-> [st.lines EXCEPT ![n] = AppendToLineProperty(@, result.g2)],
           errors |-> IF Len(result.g1) # st.lines[n].indent
                      THEN Append(st.errors, [desc |-> <<line_index + 1>>,
                                              message |-> Message(MsgContinuationIndent)])
                      ELSE st.errors,
           line_continued |-> st.line_continued]
     ELSE [lines |-> Append(st.lines, line),
           errors |-> IF n > 0 /\ st.lines[n].indent < line.indent - 1
                      THEN Append(st.errors, [desc |-> <<line_index + 1>>,
                                              message |-> Message(MsgIndentJump)])
                      ELSE st.errors,
           line_continued |-> st.line_continued]

\* the if (result[3]) ... else ... of the loop; n is the number of lines before
\* the iteration, so that lines[n] is previous_line
SplitContinuationFlag(st, result, line_index, n) ==
  IF result.g3
  THEN [st EXCEPT !.line_continued = TRUE]
  ELSE [lines |-> IF st.line_continued
                  THEN [st.lines EXCEPT ![n] = SetLastLineIndex(@, line_index)]
                  ELSE st.lines,
        errors |-> st.errors,
        line_continued |-> FALSE]

\* one iteration of the loop of dv6_to_lines, for the match result of
\* raw_lines[line_index]
SplitIterationOn(st, result, line_index) ==
  SplitContinuationFlag(SplitLineOrContinuation(st, result, line_index), result,
                        line_index, Len(st.lines))

\* one iteration of the loop of dv6_to_lines, on raw_lines[line_index]
SplitIteration(st, raw_line, line_index) ==
  SplitIterationOn(st, line_re_match(raw_line), line_index)

\* the state of dv6_to_lines after its loop has run over raw_lines[0..k-1]
RECURSIVE SplitLoop(_, _)
SplitLoop(raw_lines, k) ==
  IF k = 0 THEN [lines |-> <<>>, errors |-> <<>>, line_continued |-> FALSE]
  ELSE SplitIteration(SplitLoop(raw_lines, k - 1), raw_lines[k], k - 1)

\* what `throw new Error(erros.join("\n"))' raises: erros is no variable
ErrosReferenceError == [name |-> "ReferenceError", message |-> "erros is not defined"]

\* the end of dv6_to_lines: if (errors.length) throw ...; return lines
SplitReturn(st) ==
  IF Len(st.errors) > 0
  THEN [thrown |-> <<ErrosReferenceError>>, ret |-> <<>>, errors |-> st.errors]
  ELSE [thrown |-> <<>>, ret |-> st.lines, errors |-> st.errors]

\* the loop of dv6_to_lines over all of raw_lines
SplitAll(raw_lines) == SplitLoop(raw_lines, Len(raw_lines))

\* DV6Parser.dv6_to_lines(dv6): the lines (field ret), or what it throws
\* (field thrown); errors is its local array of diagnostics
dv6_to_lines(text) == SplitReturn(SplitAll(splitLines(text)))

----------------------------------------------------------------------------
(* The Tree Lifter: DV6Parser.flat_to_structured_lines.                    *)

\* splice that removes one element at start, whatever deleteCount is
splice_one_element(arr, start, deleteCount) ==
  LET len == Len(arr)
      actualStart == IF len + start > 0 THEN len + start ELSE 0
  IN SubSeq(arr, 1, actualStart) \o SubSeq(arr, actualStart + 2, len)

\* Array.prototype.splice(start, deleteCount) with start < 0: what is left of
\* arr (the removed elements are dropped by the caller)
splice(arr, start, deleteCount) ==
  LET len == Len(arr)
      actualStart == IF len + start > 0 THEN len + start ELSE 0
      room == len - actualStart
      count == IF deleteCount < 0 THEN 0
               ELSE IF deleteCount > room THEN room ELSE deleteCount
  IN SubSeq(arr, 1, actualStart) \o SubSeq(arr, actualStart + count + 1, len)

\* array.push(x), for the array at reference ref of heap h
push(h, ref, x) == [h EXCEPT ![ref] = Append(@, x)]

\* reading a property of undefined
UndefinedChildrenTypeError ==
  [name |-> "TypeError", message |-> "cannot read properties of undefined (reading 'children')"]

\* the stack that holds only root, a new DV6HeadLine with its heap
StackOfRoot(root) == [stack |-> <<root.obj>>, heap |-> root.heap, thrown |-> <<>>]

\* const structure_stack = [new DV6HeadLine()]
LiftStart(h) == StackOfRoot(DV6HeadLine(h, <<>>))

\* the branch indent_diff > 0: structure is the new DV6HeadLine(line) with its heap
LiftPushBranch(st, current_structure, structure) ==
  [stack |-> Append(st.stack, structure.obj),
   heap |-> push(structure.heap, current_structure.children, structure.obj),
   thrown |-> <<>>]

\* one iteration of the loop of flat_to_structured_lines, for lines[i] (i is
\* 0-based); st = [stack, heap, thrown]
LiftIteration(ls, i, st) ==
  LET line == ls[i + 1]
      has_next == i + 2 <= Len(ls)
      current_indent == Len(st.stack) - 1
      indent_diff == ls[i + 2].indent - line.indent
  IN IF current_indent < 0
     \* structure_stack[current_indent] is undefined when the stack is empty
     THEN [st EXCEPT !.thrown = <<UndefinedChildrenTypeError>>]
     ELSE IF has_next /\ indent_diff > 0
          THEN LiftPushBranch(st, st.stack[current_indent + 1], DV6HeadLine(st.heap, line))
          ELSE IF has_next /\ indent_diff < 0
               THEN [stack |-> splice(st.stack, indent_diff, -indent_diff),
                     heap |-> push(st.heap, st.stack[current_indent + 1].children, line),
                     thrown |-> <<>>]
               ELSE [stack |-> st.stack,
                     heap |-> push(st.heap, st.stack[current_indent + 1].children, line),
                     thrown |-> <<>>]

\* the next iteration, unless an exception has ended the loop
LiftIterationUnlessThrown(ls, i, st) ==
  IF st.thrown # <<>> THEN st ELSE LiftIteration(ls, i, st)

\* the state of flat_to_structured_lines after k iterations of its loop
RECURSIVE LiftLoop(_, _, _)
LiftLoop(ls, k, h) ==
  IF k = 0 THEN LiftStart(h)
  ELSE LiftIterationUnlessThrown(ls, k - 1, LiftLoop(ls, k - 1, h))

\* return structure_stack[0] (field ret, absent when the stack is empty:
\* undefined)
LiftReturn(st) ==
  IF st.thrown # <<>>
  THEN [thrown |-> st.thrown, heap |-> st.heap]
  ELSE IF Len(st.stack) > 0
       THEN [thrown |-> <<>>, heap |-> st.heap, ret |-> st.stack[1]]
       ELSE [thrown |-> <<>>, heap |-> st.heap]

\* DV6Parser.flat_to_structured_lines(lines): structure_stack[0], or what it
\* throws
flat_to_structured_lines(ls, h) == LiftReturn(LiftLoop(ls, Len(ls), h))

----------------------------------------------------------------------------
(* DV6Element and the Property Parser: DV6Parser.parse_properties.         *)

\* a string among the children of a DV6Element
Text(chars) == [text |-> chars]

\* new DV6Element(name, children): arg1 is an Array, there is no arg2
DV6ElementOfChildren(name, children) ==
  [name |-> name, properties |-> <<>>, children |-> children]

\* new DV6Element(name, properties): arg1 is no Array, there is no arg2
DV6ElementOfProperties(name, props) ==
  [name |-> name, properties |-> props, children |-> <<>>]

\* new DV6Element(name, properties, children)
DV6Element(name, props, children) ==
  [name |-> name, properties |-> props, children |-> children]

\* the names of the switch of parse_properties
T_yomi == <<"y", "o", "m", "i">>
T_qyomi == <<"q", "y", "o", "m", "i">>
T_spell == <<"s", "p", "e", "l", "l">>
T_pron == <<"p", "r", "o", "n">>
T_pos == <<"p", "o", "s">>
T_dir == <<"d", "i", "r">>
T_flag == <<"f", "l", "a", "g">>
T_author == <<"a", "u", "t", "h", "o", "r">>
T_valid == <<"v", "a", "l", "i", "d">>
T_expire == <<"e", "x", "p", "i", "r", "e">>

\* const known_flags
known_flags == <<<<"S", "P", "L">>, <<"J", "O", "K", "E">>, <<"M", "E", "D", "I", "C", "A", "L">>, <<"P", "H", "A", "R", "M">>, <<"M", "I", "S", "S">>, <<"D", "Q", "N">>>>

\* Array.prototype.includes
includes(arr, x) == \E i \in 1..Len(arr) : arr[i] = x

\* the operations of an author: ['A', 'R', 'I']
author_operations == <<<<"A">>, <<"R">>, <<"I">>>>

\* the diagnostics of parse_toplevel, parse_properties and parse_contents
MsgWordNoContent == "word has no content"
MsgPropertyIndented == "property has indented children"
MsgSpellFormat == "spell property is malformed"
MsgPronFormat == "pron property is malformed"
MsgDirFormat == "dir property must start with / and end with a character other than /"
MsgKnownFlagWarning == "there is an unknown flag"
MsgAuthorOperation == "the operation of author is A, R or I only"
MsgDateFormat == "date is malformed"
MsgAuthorFormat == "author property is malformed"
MsgUnknownProperty == "there is an unknown property"
MsgPropertyFormat == "property line is malformed"
MsgContentFormat == "content must be (marker)(space)(content)"

\* element.content.match(/^([A-Za-z]\w*):(.*)$/): ok, and the two groups
property_match(content) ==
  LET e == SkipClass(content, 2, WordChar)
      ok == /\ Len(content) >= 1
            /\ content[1] \in Alpha
            /\ e <= Len(content)
            /\ content[e] = ":"
            /\ AllDot(From(content, e + 1))
  IN IF ok THEN [ok |-> TRUE, name |-> SubSeq(content, 1, e - 1),
                 value |-> From(content, e + 1)]
     ELSE [ok |-> FALSE]

\* value.match(/^(\w+):(.+)$/) of spell and pron: ok, and the two groups
lang_match(value) ==
  LET e == SkipClass(value, 1, WordChar)
      ok == /\ e > 1
            /\ e < Len(value)
            /\ value[e] = ":"
            /\ AllDot(From(value, e + 1))
  IN IF ok THEN [ok |-> TRUE, lang |-> SubSeq(value, 1, e - 1),
                 text |-> From(value, e + 1)]
     ELSE [ok |-> FALSE]

\* s matches the template pat, in which "9" stands for \d and every other
\* character for itself
MatchesTemplate(s, pat) ==
  /\ Len(s) = Len(pat)
  /\ \A i \in 1..Len(pat) : IF pat[i] = "9" THEN s[i] \in Digit ELSE s[i] = pat[i]

\* /^\d{4}\/\d{2}\/\d{2}$/
DayRe(s) == MatchesTemplate(s, <<"9", "9", "9", "9", "/", "9", "9", "/", "9", "9">>)

\* /^\d{4}\/\d{2}\/\d{2}(?: \d{2}:\d{2}(?::\d{2})?)?$/, the date of an author
AuthorDateRe(s) ==
  \/ MatchesTemplate(s, <<"9", "9", "9", "9", "/", "9", "9", "/", "9", "9">>)
  \/ MatchesTemplate(s, <<"9", "9", "9", "9", "/", "9", "9", "/", "9", "9", " ", "9", "9", ":", "9", "9">>)
  \/ MatchesTemplate(s, <<"9", "9", "9", "9", "/", "9", "9", "/", "9", "9", " ", "9", "9", ":", "9", "9", ":", "9", "9">>)

\* /^(?:\d{4}\/\d{2}\/\d{2}|\d+ (?:day|week|month|year))$/, the regular
\* expression of valid
ValidRe(s) ==
  \/ DayRe(s)
  \/ LET e == SkipClass(s, 1, Digit)
     IN /\ e > 1
        /\ e <= Len(s)
        /\ s[e] = " "
        /\ From(s, e + 1) \in {<<"d", "a", "y">>, <<"w", "e", "e", "k">>, <<"m", "o", "n", "t", "h">>, <<"y", "e", "a", "r">>}

\* /^\d{4}\/\d{2}\/\d{2}$/, the regular expression of expire
ExpireRe(s) == DayRe(s)

\* `date' in the cases valid and expire names no variable in scope (the
\* const date of the author loop is local to that loop)
DateReferenceError == [name |-> "ReferenceError", message |-> "date is not defined"]

\* dates_str.split or names_str.split with the string undefined
UndefinedSplitTypeError ==
  [name |-> "TypeError", message |-> "cannot read properties of undefined (reading 'split')"]

\* throw 1
ThrownOne == [name |-> "Number", message |-> "1"]

\* this.errors.push(e)
PushError(this, e) == [this EXCEPT !.errors = Append(@, e)]

\* this.warnings.push(e)
PushWarning(this, e) == [this EXCEPT !.warnings = Append(@, e)]

\* arr.map(x => new DV6Element(name, [x]))
RECURSIVE ElementsOf(_, _)
ElementsOf(name, arr) ==
  IF arr = <<>> THEN <<>>
  ELSE <<DV6ElementOfChildren(name, <<Text(Head(arr))>>)>> \o ElementsOf(name, Tail(arr))

\* the position of the first date of dates that fails the regular expression
\* of the author loop, 0 if every date passes
RECURSIVE FirstBadDate(_, _)
FirstBadDate(dates, i) ==
  IF i > Len(dates) THEN 0
  ELSE IF AuthorDateRe(dates[i]) THEN FirstBadDate(dates, i + 1) ELSE i

\* the warnings of the loop over the flags of case 'flag': one for every flag
\* that known_flags includes
RECURSIVE FlagWarnings(_, _)
FlagWarnings(element, flags) ==
  IF flags = <<>> THEN <<>>
  ELSE (IF includes(known_flags, Head(flags))
        THEN <<error(element, MessageWith(MsgKnownFlagWarning, Head(flags)))>>
        ELSE <<>>) \o FlagWarnings(element, Tail(flags))

\* case 'author' of parse_properties once value.split(/,/) is author_info;
\* st = [this, properties, thrown]
AuthorCaseOf(st, element, author_info) ==
  LET n == Len(author_info)
      operation == author_info[1]
      dates == split(author_info[2], ";")
      names == split(author_info[3], ";")
      \* sources_str ? sources_str.split(/;/) : []  (undefined and '' are falsy)
      sources == IF n >= 4 /\ author_info[4] # <<>> THEN split(author_info[4], ";") ELSE <<>>
      bad == FirstBadDate(dates, 1)
  IN IF n <= 4
     THEN IF ~includes(author_operations, operation)
          THEN [st EXCEPT !.this = PushError(@, error(element, Message(MsgAuthorOperation)))]
          ELSE IF n < 3
               \* dates_str (n = 1) or names_str (n = 2) is undefined
               THEN [st EXCEPT !.thrown = <<UndefinedSplitTypeError>>]
               ELSE IF bad # 0
                    THEN [st EXCEPT
                            !.this = PushError(@, error(element, MessageWith(MsgDateFormat, dates[bad]))),
                            !.thrown = <<ThrownOne>>]
                    ELSE [st EXCEPT !.properties = Append(@,
                            DV6Element("author", [operation |-> operation],
                                       ElementsOf("date", dates) \o ElementsOf("name", names)
                                         \o ElementsOf("source", sources)))]
     ELSE [st EXCEPT !.this = PushError(@, error(element, Message(MsgAuthorFormat)))]

\* case 'author' of parse_properties
AuthorCase(st, element, value) == AuthorCaseOf(st, element, split(value, ","))

\* case 'spell' (which = "spell") and case 'pron' (which = "pron"), lang the
\* result of the match of the value
LangCase(st, element, which, lang) ==
  IF lang.ok
  THEN [st EXCEPT !.properties = Append(@,
          DV6Element(which, [lang |-> lang.lang], <<Text(lang.text)>>))]
  ELSE [st EXCEPT !.this = PushError(@, error(element,
          Message(IF which = "spell" THEN MsgSpellFormat ELSE MsgPronFormat)))]

\* the condition of case 'dir' without its test of the last character
dir_accepts_leading_only(value) == startsWith(value, <<"/">>)

\* the condition of case 'dir'
dir_accepts(value) == startsWith(value, <<"/">>) /\ ~endsWith(value, <<"/">>)

\* case 'flag', flags the result of value.split(/,/)
FlagCase(st, element, flags) ==
  [st EXCEPT !.properties = @ \o ElementsOf("flag", flags),
             !.this = [@ EXCEPT !.warnings = @ \o FlagWarnings(element, flags)]]

\* the switch (name) of parse_properties
PropertySwitch(st, element, name, value) ==
  CASE name = T_yomi ->
         [st EXCEPT !.properties = Append(@, DV6ElementOfChildren("yomi", <<Text(value)>>))]
    [] name = T_qyomi ->
         [st EXCEPT !.properties = Append(@, DV6ElementOfChildren("qyomi", <<Text(value)>>))]
    [] name = T_spell -> LangCase(st, element, "spell", lang_match(value))
    [] name = T_pron -> LangCase(st, element, "pron", lang_match(value))
    [] name = T_pos ->
         [st EXCEPT !.properties = @ \o ElementsOf("pos", split(value, ","))]
    [] name = T_dir ->
         IF dir_accepts(value)
         THEN [st EXCEPT !.properties = Append(@, DV6ElementOfChildren("dir", <<Text(value)>>))]
         ELSE [st EXCEPT !.this = PushError(@, error(element, Message(MsgDirFormat)))]
    [] name = T_flag -> FlagCase(st, element, split(value, ","))
    [] name = T_author -> AuthorCase(st, element, value)
    [] name = T_valid ->
         \* .test(date): evaluating the argument throws
         [st EXCEPT !.thrown = <<DateReferenceError>>]
    [] name = T_expire ->
         [st EXCEPT !.thrown = <<DateReferenceError>>]
    [] OTHER ->
         [st EXCEPT !.this = PushWarning(@, error(element, Message(MsgUnknownProperty)))]

\* the else branch of the loop body, result the match of element.content
PropertyOfMatch(st, element, result) ==
  IF ~result.ok
  THEN [st EXCEPT !.this = PushError(@, error(element, Message(MsgPropertyFormat)))]
  ELSE PropertySwitch(st, element, result.name, result.value)

\* the body of the loop of parse_properties for one element;
\* st = [this, properties, thrown]
PropertyIteration(st, element) ==
  IF IsHeadLine(element)
  THEN [st EXCEPT !.this = PushError(@, error(element, Message(MsgPropertyIndented)))]
  ELSE PropertyOfMatch(st, element, property_match(element.content))

\* the next iteration, unless an exception has ended the loop
PropertyIterationUnlessThrown(st, element) ==
  IF st.thrown # <<>> THEN st ELSE PropertyIteration(st, element)

\* the state of parse_properties after k iterations of its loop
RECURSIVE PropertiesLoop(_, _, _)
PropertiesLoop(this, elems, k) ==
  IF k = 0 THEN [this |-> this, properties |-> <<>>, thrown |-> <<>>]
  ELSE PropertyIterationUnlessThrown(PropertiesLoop(this, elems, k - 1), elems[k])

\* return new DV6Element('properties', properties)
PropertiesResult(st) ==
  IF st.thrown # <<>>
  THEN [this |-> st.this, thrown |-> st.thrown]
  ELSE [this |-> st.this, thrown |-> <<>>,
        ret |-> DV6ElementOfChildren("properties", st.properties)]

\* DV6Parser.parse_properties(elements): this after the call (its errors and
\* warnings), and the `properties' element (field ret) or what is thrown
parse_properties(this, elems) == PropertiesResult(PropertiesLoop(this, elems, Len(elems)))

----------------------------------------------------------------------------
(* The Content Parser, the Child Classifier and the Entry Extractor.       *)

\* the first position >= i of s whose character is in class, Len(s)+1 if none
RECURSIVE SkipToClass(_, _, _)
SkipToClass(s, i, class) ==
  IF i <= Len(s) /\ s[i] \notin class THEN SkipToClass(s, i + 1, class) ELSE i

\* element.content.match(/^(\S+)\s(.*)$/) is not null: \S+ takes the longest
\* run without a space character, which a space character must follow
content_match(content) ==
  LET e == SkipToClass(content, 1, SpaceChar)
  IN e > 1 /\ e <= Len(content) /\ AllDot(From(content, e + 1))

\* the errors of the loop of parse_contents
RECURSIVE ContentErrors(_)
ContentErrors(elems) ==
  IF elems = <<>> THEN <<>>
  ELSE (IF content_match(Head(elems).content) THEN <<>>
        ELSE <<error(Head(elems), Message(MsgContentFormat))>>) \o ContentErrors(Tail(elems))

\* DV6Parser.parse_contents(elements): nothing is pushed to contents
parse_contents(this, elems) ==
  [this |-> [this EXCEPT !.errors = @ \o ContentErrors(elems)],
   ret |-> DV6ElementOfChildren("contents", <<>>)]

\* structure.children.findIndex((element) => !element.is_property): 0-based,
\* -1 if there is none
findIndexNotProperty(arr) ==
  IF \E i \in 1..Len(arr) : ~is_property(arr[i])
  THEN (CHOOSE i \in 1..Len(arr) :
          ~is_property(arr[i]) /\ \A j \in 1..(i - 1) : is_property(arr[j])) - 1
  ELSE -1

\* structure.children.findIndex((element) => element.is_extended)
findIndexExtended(arr) ==
  IF \E i \in 1..Len(arr) : is_extended(arr[i])
  THEN (CHOOSE i \in 1..Len(arr) :
          is_extended(arr[i]) /\ \A j \in 1..(i - 1) : ~is_extended(arr[j])) - 1
  ELSE -1

\* Array.prototype.slice(begin, end) with 0 <= begin and 0 <= end
slice(arr, begin, end) ==
  LET e == IF end > Len(arr) THEN Len(arr) ELSE end
  IN IF begin >= e THEN <<>> ELSE SubSeq(arr, begin + 1, e)

\* let contents_begin_index of parse_top_children
contents_begin_index(children) ==
  LET i == findIndexNotProperty(children)
  IN IF i = -1 THEN Len(children) ELSE i

\* let extended_begin_index of parse_top_children
extended_begin_index(children) ==
  LET i == findIndexExtended(children)
  IN IF i = -1 THEN Len(children) ELSE i

\* the end of parse_top_children: props and conts are what parse_properties
\* and parse_contents returned
TopChildrenResult(props, conts) ==
  [this |-> conts.this, thrown |-> <<>>,
   properties |-> props.ret, contents |-> conts.ret]

\* parse_top_children after its call of parse_properties returned props
TopChildrenAfterProperties(props, contents_region) ==
  IF props.thrown # <<>>
  THEN [this |-> props.this, thrown |-> props.thrown]
  ELSE TopChildrenResult(props, parse_contents(props.this, contents_region))

\* parse_top_children on the children of the structure
TopChildrenOf(this, children) ==
  TopChildrenAfterProperties(
    parse_properties(this, slice(children, 0, contents_begin_index(children))),
    slice(children, contents_begin_index(children), extended_begin_index(children)))

\* parse_children on the children of the structure: everything from
\* contents_begin_index on goes to parse_contents
ChildrenOf(this, children) ==
  TopChildrenAfterProperties(
    parse_properties(this, slice(children, 0, contents_begin_index(children))),
    slice(children, contents_begin_index(children), Len(children)))

\* DV6Parser.parse_children(structure): this after the call, and
\* {properties, contents} or what is thrown
parse_children(this, h, structure) == ChildrenOf(this, h[structure.children])

\* DV6Parser.parse_top_children(structure): this after the call, and
\* {properties, contents, extended} (extended is undefined) or what is thrown
parse_top_children(this, h, structure) == TopChildrenOf(this, h[structure.children])

\* structure.content.match(/^#(.+?)$/) is not null
word_match(content) ==
  Len(content) >= 2 /\ content[1] = "#" /\ AllDot(From(content, 2))

\* reading [1] of the null that match returns
NullIndexTypeError ==
  [name |-> "TypeError", message |-> "cannot read properties of null (reading '1')"]

\* the end of parse_word: parts is what parse_top_children returned
WordResult(name, parts) ==
  IF parts.thrown # <<>>
  THEN [this |-> parts.this, thrown |-> parts.thrown]
  ELSE [this |-> parts.this, thrown |-> <<>>,
        ret |-> DV6ElementOfChildren("word",
                  <<DV6ElementOfChildren("name", <<Text(name)>>),
                    parts.properties, parts.contents>>)]

\* DV6Parser.parse_word(structure): this after the call, and the word (field
\* ret) or what is thrown
parse_word(this, h, structure) ==
  IF ~word_match(structure.content)
  THEN [this |-> this, thrown |-> <<NullIndexTypeError>>]
  ELSE WordResult(From(structure.content, 2), parse_top_children(this, h, structure))

\* what the callback of parse_toplevel does with the return of parse_word
ToplevelWord(st, w) ==
  IF w.thrown # <<>>
  THEN [st EXCEPT !.this = w.this, !.thrown = w.thrown]
  ELSE [st EXCEPT !.this = w.this, !.words = Append(@, w.ret)]

\* the callback of the map of parse_toplevel on one element;
\* st = [this, words, thrown], words the values that the filter keeps
ToplevelIteration(st, h, element) ==
  IF is_word(element)
  THEN IF IsHeadLine(element)
       THEN ToplevelWord(st, parse_word(st.this, h, element))
       ELSE [st EXCEPT !.this = PushError(@, error(element, Message(MsgWordNoContent)))]
  ELSE st

\* the next call of the callback, unless an exception has ended the map
ToplevelIterationUnlessThrown(st, h, element) ==
  IF st.thrown # <<>> THEN st ELSE ToplevelIteration(st, h, element)

\* the map of parse_toplevel over the first k children
RECURSIVE ToplevelLoop(_, _, _, _)
ToplevelLoop(this, h, children, k) ==
  IF k = 0 THEN [this |-> this, words |-> <<>>, thrown |-> <<>>]
  ELSE ToplevelIterationUnlessThrown(ToplevelLoop(this, h, children, k - 1), h, children[k])

\* the return of parse_toplevel
ToplevelResult(st) ==
  IF st.thrown # <<>>
  THEN [this |-> st.this, thrown |-> st.thrown]
  ELSE [this |-> st.this, thrown |-> <<>>, ret |-> st.words]

\* DV6Parser.parse_toplevel(structure): this after the call, and the words
\* (field ret) or what is thrown
parse_toplevel(this, h, structure) ==
  ToplevelResult(ToplevelLoop(this, h, h[structure.children], Len(h[structure.children])))

\* new DV6Parser(dv6)
NewDV6Parser(text) == [dv6 |-> text, errors |-> <<>>, warnings |-> <<>>]

\* this._result = (what parse_toplevel returned)
ParseAfterToplevel(tree, top) ==
  IF top.thrown # <<>>
  THEN [this |-> top.this, heap |-> tree.heap, thrown |-> top.thrown]
  ELSE [this |-> ("result" :> top.ret) @@ top.this, heap |-> tree.heap, thrown |-> <<>>]

\* parse() after flat_to_structured_lines returned tree; parse_toplevel reads
\* structure.children, and structure is undefined when tree has no ret
ParseAfterLift(this, tree) ==
  IF tree.thrown # <<>>
  THEN [this |-> this, heap |-> tree.heap, thrown |-> tree.thrown]
  ELSE IF "ret" \notin DOMAIN tree
       THEN [this |-> this, heap |-> tree.heap, thrown |-> <<UndefinedChildrenTypeError>>]
       ELSE ParseAfterToplevel(tree, parse_toplevel(this, tree.heap, tree.ret))

\* parse() after dv6_to_lines returned ls
ParseAfterSplit(this, h, ls) ==
  IF ls.thrown # <<>>
  THEN [this |-> this, heap |-> h, thrown |-> ls.thrown]
  ELSE ParseAfterLift(this, flat_to_structured_lines(ls.ret, h))

\* DV6Parser.parse(): this after the call (with `result' set on return), the
\* heap after it, and what it throws
parse(this, h) == ParseAfterSplit(this, h, dv6_to_lines(this.dv6))

----------------------------------------------------------------------------
(* The inputs of the model and their bounds.                               *)

\* a source text has at most MaxLines physical lines
MaxLines == 3

\* a physical line starts with at most MaxIndent tabs
MaxIndent == 2

\* a property region has at most MaxProps lines
MaxProps == 2

\* the two runs parse a text of at most MaxRunLines lines
MaxRunLines == 3

\* the line contents of the source texts
Contents ==
  {<<>>,
   <<"#", "w">>,
   <<"#">>,
   <<"x", " ", "y">>,
   <<"y", "o", "m", "i", ":", "a">>,
   <<"d", "i", "r", ":", "a">>,
   <<"/", "/", "e">>,
   <<"a", "b", "\\">>}

\* the line contents of the texts of the two runs
RunContents ==
  {<<"#", "w">>,
   <<"#">>,
   <<"x", " ", "y">>,
   <<"y", "o", "m", "i", ":", "a">>,
   <<"f", "l", "a", "g", ":", "S", "P", "L">>,
   <<"v", "a", "l", "i", "d", ":", "x">>}

\* the contents of the lines of a property region
PropertyLines ==
  {<<"y", "o", "m", "i", ":", "a">>,
   <<"q", "y", "o", "m", "i", ":", "a">>,
   <<"s", "p", "e", "l", "l", ":", "e", "n", ":", "a">>,
   <<"s", "p", "e", "l", "l", ":", "a">>,
   <<"p", "r", "o", "n", ":", "e", "n", ":", "a">>,
   <<"p", "o", "s", ":", "n", ",", "v">>,
   <<"d", "i", "r", ":", "/", "a">>,
   <<"d", "i", "r", ":", "a">>,
   <<"d", "i", "r", ":", "/", "a", "/">>,
   <<"d", "i", "r", ":", "/">>,
   <<"d", "i", "r", ":">>,
   <<"d", "i", "r", ":", "/", "a", "/", "b">>,
   <<"d", "i", "r", ":", "a", "/">>,
   <<"f", "l", "a", "g", ":", "S", "P", "L">>,
   <<"f", "l", "a", "g", ":", "X", "X">>,
   <<"f", "l", "a", "g", ":", "D", "Q", "N", ",", "X", "X">>,
   <<"f", "l", "a", "g", ":">>,
   <<"a", "u", "t", "h", "o", "r", ":", "A", ",", "2", "0", "2", "0", "/", "0", "1", "/", "0", "1", ",", "A", "l">>,
   <<"a", "u", "t", "h", "o", "r", ":", "R", ",", "2", "0", "2", "0", "/", "0", "1", "/", "0", "1", ";", "2", "0", "2", "0", "/", "0", "1", "/", "0", "2", " ", "1", "0", ":", "0", "0", ",", "A", "l", ";", "B", "o", ",", "s", ";", "t">>,
   <<"a", "u", "t", "h", "o", "r", ":", "I", ",", "2", "0", "2", "0", "/", "0", "1", "/", "0", "1", " ", "1", "0", ":", "0", "0", ":", "0", "0", ",", "A", "l", ",">>,
   <<"a", "u", "t", "h", "o", "r", ":", "X", ",", "2", "0", "2", "0", "/", "0", "1", "/", "0", "1", ",", "A", "l">>,
   <<"a", "u", "t", "h", "o", "r", ":", "A", ",", "2", "0", "2", "0", "-", "0", "1", "-", "0", "1", ",", "A", "l">>,
   <<"a", "u", "t", "h", "o", "r", ":", "A", ",", "2", "0", "2", "0", "/", "0", "1", "/", "0", "1">>,
   <<"a", "u", "t", "h", "o", "r", ":", "A">>,
   <<"a", "u", "t", "h", "o", "r", ":", "X">>,
   <<"a", "u", "t", "h", "o", "r", ":", "A", ",", "2", "0", "2", "0", "/", "0", "1", "/", "0", "1", ",", "A", "l", ",", "s", ",", "x">>,
   <<"v", "a", "l", "i", "d", ":", "2", "0", "2", "0", "/", "0", "1", "/", "0", "1">>,
   <<"v", "a", "l", "i", "d", ":", "3", " ", "d", "a", "y">>,
   <<"v", "a", "l", "i", "d", ":", "x">>,
   <<"e", "x", "p", "i", "r", "e", ":", "2", "0", "2", "0", "/", "0", "1", "/", "0", "1">>,
   <<"e", "x", "p", "i", "r", "e", ":", "x">>,
   <<"f", "o", "o", ":", "b", "a", "r">>,
   <<"1", "a", ":", "b">>}

\* n tabs
RECURSIVE Tabs(_)
Tabs(n) == IF n = 0 THEN <<>> ELSE <<Tab>> \o Tabs(n - 1)

\* the text of physical lines ls, each ended by eol but the last
RECURSIVE JoinLines(_, _)
JoinLines(ls, eol) ==
  IF Len(ls) = 1 THEN ls[1] ELSE ls[1] \o eol \o JoinLines(Tail(ls), eol)

\* the physical lines: up to maxIndent tabs and a content of pool
PhysicalLines(pool, maxIndent) ==
  {Tabs(k) \o c : k \in 0..maxIndent, c \in pool}

\* the source texts of up to n lines
Sources(pool, maxIndent, n, eols) ==
  {JoinLines(ls, eol) :
     ls \in UNION {[1..m -> PhysicalLines(pool, maxIndent)] : m \in 1..n},
     eol \in eols}

\* the children of a word whose k-th child (on line k, the word on line 0) is
\* the property line props[k]
PropertyRegion(props) ==
  [k \in 1..Len(props) |->
     DV6Line([line_index |-> k, indent |-> 1, content |-> props[k]])]

----------------------------------------------------------------------------
(* Spec: one run of parse(), the Tree Lifter loop by loop.                 *)

Init ==
  /\ dv6 \in Sources(Contents, MaxIndent, MaxLines, {<<LF>>, <<CR, LF>>})
  /\ pc = "start"
  /\ lines = <<>>
  /\ index = 0
  /\ structure_stack = <<>>
  /\ heap = <<>>
  /\ parsers = <<>>
  /\ thrown = <<>>
  /\ elements = <<>>
  /\ properties = <<>>
  /\ contents_begin = 0
  /\ extended_begin = 0

\* const parser = new DV6Parser(this.dv6)
Construct ==
  /\ pc = "start"
  /\ parsers' = <<NewDV6Parser(dv6)>>
  /\ pc' = "split"
  /\ UNCHANGED <<contents_begin, extended_begin>>
  /\ UNCHANGED <<dv6, lines, index, structure_stack, heap, thrown, elements, properties>>

\* the step of DV6ToLines, r what dv6_to_lines returned and st the start of
\* flat_to_structured_lines
DV6ToLinesStep(r, st) ==
  IF r.thrown # <<>>
  THEN /\ thrown' = r.thrown
       /\ pc' = "thrown"
       /\ UNCHANGED <<lines, structure_stack, heap>>
  ELSE /\ lines' = r.ret
       /\ structure_stack' = st.stack
       /\ heap' = st.heap
       /\ pc' = "lift"
       /\ UNCHANGED thrown

\* const lines = DV6Parser.dv6_to_lines(dv6), and the first statement of
\* flat_to_structured_lines
DV6ToLines ==
  /\ pc = "split"
  /\ DV6ToLinesStep(dv6_to_lines(parsers[1].dv6), LiftStart(heap))
  /\ UNCHANGED <<contents_begin, extended_begin>>
  /\ UNCHANGED <<dv6, index, parsers, elements, properties>>

\* the step of LiftStep, st the state after the iteration
LiftStepTo(st) ==
  IF st.thrown # <<>>
  THEN /\ thrown' = st.thrown
       /\ pc' = "thrown"
       /\ UNCHANGED <<index, structure_stack, heap>>
  ELSE /\ structure_stack' = st.stack
       /\ heap' = st.heap
       /\ index' = index + 1
       /\ UNCHANGED <<pc, thrown>>

\* one iteration of the loop of flat_to_structured_lines
LiftStep ==
  /\ pc = "lift"
  /\ index < Len(lines)
  /\ LiftStepTo(LiftIteration(lines, index, [stack |-> structure_stack, heap |-> heap,
                                             thrown |-> <<>>]))
  /\ UNCHANGED <<contents_begin, extended_begin>>
  /\ UNCHANGED <<dv6, lines, parsers, elements, properties>>

\* the step of ParseToplevel, r what the rest of parse() left
ParseToplevelStep(r) ==
  /\ parsers' = <<r.this>>
  /\ thrown' = r.thrown
  /\ pc' = IF r.thrown # <<>> THEN "thrown" ELSE "done"

\* return structure_stack[0], and this._result = this.parse_toplevel(structured_lines)
ParseToplevel ==
  /\ pc = "lift"
  /\ index = Len(lines)
  /\ ParseToplevelStep(ParseAfterLift(parsers[1],
                                      LiftReturn([stack |-> structure_stack, heap |-> heap,
                                                  thrown |-> <<>>])))
  /\ UNCHANGED <<contents_begin, extended_begin>>
  /\ UNCHANGED <<dv6, lines, index, structure_stack, heap, elements, properties>>

Next == Construct \/ DV6ToLines \/ LiftStep \/ ParseToplevel

Spec == Init /\ [][Next]_vars

----------------------------------------------------------------------------
(* SpecProperties: parse_properties on a property region, line by line.    *)

InitProperties ==
  /\ elements \in {PropertyRegion(props) :
                     props \in UNION {[1..m -> PropertyLines] : m \in 1..MaxProps}}
  /\ dv6 = JoinLines(<<<<"#", "w">>>> \o [k \in 1..Len(elements) |-> <<Tab>> \o elements[k].content],
                     <<LF>>)
  /\ pc = "properties"
  /\ lines = <<>>
  /\ index = 0
  /\ structure_stack = <<>>
  /\ heap = <<>>
  /\ parsers = <<NewDV6Parser(dv6)>>
  /\ thrown = <<>>
  /\ properties = <<>>
  /\ contents_begin = 0
  /\ extended_begin = 0

\* the step of PropertiesStep, st the state after the iteration
PropertiesStepTo(st) ==
  /\ parsers' = <<st.this>>
  /\ IF st.thrown # <<>>
     THEN /\ thrown' = st.thrown
          /\ pc' = "thrown"
          /\ UNCHANGED <<index, properties>>
     ELSE /\ properties' = st.properties
          /\ index' = index + 1
          /\ UNCHANGED <<pc, thrown>>

\* one iteration of the loop of parse_properties
PropertiesStep ==
  /\ pc = "properties"
  /\ index < Len(elements)
  /\ PropertiesStepTo(PropertyIteration([this |-> parsers[1], properties |-> properties,
                                         thrown |-> <<>>], elements[index + 1]))
  /\ UNCHANGED <<contents_begin, extended_begin>>
  /\ UNCHANGED <<dv6, lines, structure_stack, heap, elements>>

\* return new DV6Element('properties', properties)
PropertiesReturn ==
  /\ pc = "properties"
  /\ index = Len(elements)
  /\ pc' = "returned"
  /\ UNCHANGED <<contents_begin, extended_begin>>
  /\ UNCHANGED <<dv6, lines, index, structure_stack, heap, parsers, thrown, elements,
                 properties>>

NextProperties == PropertiesStep \/ PropertiesReturn

SpecProperties == InitProperties /\ [][NextProperties]_vars

----------------------------------------------------------------------------
(* SpecRuns: two DV6Parser instances parse the same text, one after the    *)
(* other in either order; parse() is synchronous, so a run is one step.    *)

Runs == {1, 2}

InitRuns ==
  /\ dv6 \in Sources(RunContents, 1, MaxRunLines, {<<LF>>})
  /\ pc = [p \in Runs |-> "start"]
  /\ lines = <<>>
  /\ index = 0
  /\ structure_stack = <<>>
  /\ heap = <<>>
  /\ parsers = [p \in Runs |-> <<>>]
  /\ thrown = [p \in Runs |-> <<>>]
  /\ elements = <<>>
  /\ properties = <<>>
  /\ contents_begin = 0
  /\ extended_begin = 0

\* new DV6Parser(dv6)
RunConstruct(p) ==
  /\ pc[p] = "start"
  /\ parsers' = [parsers EXCEPT ![p] = NewDV6Parser(dv6)]
  /\ pc' = [pc EXCEPT ![p] = "constructed"]
  /\ UNCHANGED <<contents_begin, extended_begin>>
  /\ UNCHANGED <<dv6, lines, index, structure_stack, heap, thrown, elements, properties>>

\* the step of RunParse, r what parse() left
RunParseStep(p, r) ==
  /\ parsers' = [parsers EXCEPT ![p] = r.this]
  /\ heap' = r.heap
  /\ thrown' = [thrown EXCEPT ![p] = r.thrown]
  /\ pc' = [pc EXCEPT ![p] = IF r.thrown # <<>> THEN "thrown" ELSE "done"]

\* parser.parse()
RunParse(p) ==
  /\ pc[p] = "constructed"
  /\ RunParseStep(p, parse(parsers[p], heap))
  /\ UNCHANGED <<contents_begin, extended_begin>>
  /\ UNCHANGED <<dv6, lines, index, structure_stack, elements, properties>>

NextRuns == \E p \in Runs : RunConstruct(p) \/ RunParse(p)

SpecRuns == InitRuns /\ [][NextRuns]_vars

----------------------------------------------------------------------------
(* SpecRegions: parse_top_children, or parse_children, on the children of *)
(* a word, statement by statement.                                         *)

MaxChildren == 3

\* the contents of the children of a word
RegionLines ==
  { <<"y", "o", "m", "i", ":", "a">>, <<"f", "l", "a", "g", ":", "S", "P", "L">>, <<"a", ":", "/", "/", "b">>, <<"x", " ", "y">>, <<"/", "/", "e">>, <<"/", "/", "a", ":", "b">> }

InitRegions ==
  /\ \E n \in 1..MaxChildren : \E cs \in [1..n -> RegionLines] :
       /\ elements = PropertyRegion(cs)
       /\ dv6 = JoinLines(<<<<"#", "w">>>> \o [k \in 1..n |-> <<Tab>> \o cs[k]], <<LF>>)
  /\ pc = "children"
  /\ lines = <<>>
  /\ index = 0
  /\ structure_stack = <<>>
  /\ heap = <<>>
  /\ parsers = <<NewDV6Parser(dv6)>>
  /\ thrown = <<>>
  /\ properties = <<>>
  /\ contents_begin = 0
  /\ extended_begin = 0

\* let contents_begin_index = ...; if (contents_begin_index === -1) ...
\* (the same two statements open parse_top_children and parse_children)
RegionContentsBegin ==
  /\ pc = "children"
  /\ contents_begin' = contents_begin_index(elements)
  /\ pc' = "contents_begin"
  /\ UNCHANGED <<dv6, lines, index, structure_stack, heap, parsers, thrown, elements,
                 properties, extended_begin>>

\* let extended_begin_index = ...; if (extended_begin_index === -1) ...
RegionExtendedBegin ==
  /\ pc = "contents_begin"
  /\ extended_begin' = extended_begin_index(elements)
  /\ pc' = "extended_begin"
  /\ UNCHANGED <<dv6, lines, index, structure_stack, heap, parsers, thrown, elements,
                 properties, contents_begin>>

\* the step of RegionParse, r what the calls of parse_properties and
\* parse_contents left
RegionParseStep(r) ==
  /\ parsers' = <<r.this>>
  /\ thrown' = r.thrown
  /\ pc' = IF r.thrown # <<>> THEN "thrown" ELSE "returned"
  /\ properties' = IF r.thrown # <<>> THEN properties ELSE r.properties.children

\* const properties = this.parse_properties(children.slice(0, contents_begin_index)),
\* const contents = this.parse_contents(...slice(contents_begin_index, extended_begin_index))
RegionParse ==
  /\ pc = "extended_begin"
  /\ RegionParseStep(TopChildrenAfterProperties(
                       parse_properties(parsers[1], slice(elements, 0, contents_begin)),
                       slice(elements, contents_begin, extended_begin)))
  /\ UNCHANGED <<dv6, lines, index, structure_stack, heap, elements, contents_begin,
                 extended_begin>>

\* the step of RegionParseChildren, r what the calls of parse_properties and
\* parse_contents left
RegionParseChildrenStep(r) ==
  /\ parsers' = <<r.this>>
  /\ thrown' = r.thrown
  /\ pc' = IF r.thrown # <<>> THEN "children_thrown" ELSE "children_returned"
  /\ properties' = IF r.thrown # <<>> THEN properties ELSE r.properties.children

\* parse_children after its contents_begin_index:
\* const properties = this.parse_properties(children.slice(0, contents_begin_index)),
\* const contents = this.parse_contents(structure.children.slice(contents_begin_index))
RegionParseChildren ==
  /\ pc = "contents_begin"
  /\ RegionParseChildrenStep(TopChildrenAfterProperties(
                               parse_properties(parsers[1], slice(elements, 0, contents_begin)),
                               slice(elements, contents_begin, Len(elements))))
  /\ UNCHANGED <<dv6, lines, index, structure_stack, heap, elements, contents_begin,
                 extended_begin>>

NextRegions ==
  RegionContentsBegin \/ RegionExtendedBegin \/ RegionParse \/ RegionParseChildren

SpecRegions == InitRegions /\ [][NextRegions]_vars

----------------------------------------------------------------------------
(* SpecLift: flat_to_structured_lines on the lines that dv6_to_lines       *)
(* returns, iteration by iteration.                                        *)

MaxLiftLines == 4

\* the contents of the lines
LiftContents == { <<"#", "w">>, <<"a">> }

\* the start of flat_to_structured_lines(lines), r what dv6_to_lines returned
\* and st the stack of the root
InitLiftFrom(r, st) ==
  /\ r.thrown = <<>>
  /\ lines = r.ret
  /\ structure_stack = st.stack
  /\ heap = st.heap

InitLift ==
  /\ dv6 \in Sources(LiftContents, MaxIndent, MaxLiftLines, {<<LF>>})
  /\ InitLiftFrom(dv6_to_lines(dv6), LiftStart(<<>>))
  /\ pc = "lift"
  /\ index = 0
  /\ parsers = <<NewDV6Parser(dv6)>>
  /\ thrown = <<>>
  /\ elements = <<>>
  /\ properties = <<>>
  /\ contents_begin = 0
  /\ extended_begin = 0

\* return structure_stack[0]
LiftFinish ==
  /\ pc = "lift"
  /\ index = Len(lines)
  /\ pc' = "lifted"
  /\ UNCHANGED <<dv6, lines, index, structure_stack, heap, parsers, thrown, elements,
                 properties, contents_begin, extended_begin>>

NextLift == LiftStep \/ LiftFinish

SpecLift == InitLift /\ [][NextLift]_vars

----------------------------------------------------------------------------
(* What the claims speak of.                                               *)

\* the element that the next iteration of parse_properties takes
NextElement == elements[index + 1]

\* parse_properties is about to take a line whose content starts with prefix
TakesLine(prefix) ==
  /\ pc = "properties"
  /\ index < Len(elements)
  /\ startsWith(NextElement.content, prefix)

\* the value of the line that starts with prefix
ValueAfter(prefix) == From(NextElement.content, Len(prefix) + 1)

\* the elements of properties named name
RECURSIVE NodesNamed(_, _)
NodesNamed(props, name) ==
  IF props = <<>> THEN <<>>
  ELSE (IF Head(props).name = name THEN <<Head(props)>> ELSE <<>>)
       \o NodesNamed(Tail(props), name)

\* an exception left parse_properties
PropertiesThrew == pc = "thrown"

\* C1: parse_properties is best-effort: no property line makes it throw; it
\* returns normally after every line of the region has been processed.
C1_BestEffort ==
  /\ ~PropertiesThrew
  /\ pc = "returned" => index = Len(elements)

\* the number of backslashes that end s
RECURSIVE TrailingBackslashes(_)
TrailingBackslashes(s) ==
  IF s # <<>> /\ s[Len(s)] = Backslash
  THEN 1 + TrailingBackslashes(SubSeq(s, 1, Len(s) - 1))
  ELSE 0

\* a physical line that ends in one unescaped backslash
Continued(raw_line) == TrailingBackslashes(raw_line) % 2 = 1

\* the number of tabs that start a physical line, and what follows them
TabCount(raw_line) == SkipClass(raw_line, 1, {Tab}) - 1

AfterTabs(raw_line) == From(raw_line, TabCount(raw_line) + 1)

\* the physical lines with every continued line merged with the line after
\* it: the backslash goes, and the content of the next line is appended
RECURSIVE Merged(_)
Merged(raw_lines) ==
  IF Len(raw_lines) <= 1 THEN raw_lines
  ELSE IF Continued(raw_lines[1])
       THEN Merged(<<SubSeq(raw_lines[1], 1, Len(raw_lines[1]) - 1) \o AfterTabs(raw_lines[2])>>
                   \o Tail(Tail(raw_lines)))
       ELSE <<raw_lines[1]>> \o Merged(Tail(raw_lines))

\* the physical lines of the source text
RawLines == splitLines(dv6)

\* some physical line but the last is continued, and the last is not
HasContinuation ==
  /\ \E i \in 1..(Len(RawLines) - 1) : Continued(RawLines[i])
  /\ ~Continued(RawLines[Len(RawLines)])

\* dv6_to_lines has returned
SplitReturned == pc \in {"lift", "done"} \/ (pc = "thrown" /\ lines # <<>>)

\* C2: a physical line that ends in a single unescaped backslash and the
\* physical line after it make one logical line: its indent is the tab count
\* of the first, its content the first without the backslash and then the
\* content of the second.
C2_ContinuationMerge ==
  (pc = "lift" /\ HasContinuation) =>
     /\ Len(lines) = Len(Merged(RawLines))
     /\ \A i \in 1..Len(lines) :
          /\ lines[i].indent = TabCount(Merged(RawLines)[i])
          /\ lines[i].content = AfterTabs(Merged(RawLines)[i])

\* no physical line is continued, and some line has two or more tabs more than
\* the line before it
HasIndentJump ==
  /\ \A i \in 1..Len(RawLines) : ~Continued(RawLines[i])
  /\ \E i \in 2..Len(RawLines) : TabCount(RawLines[i]) >= TabCount(RawLines[i - 1]) + 2

\* dv6_to_lines has run
SplitRan == pc \notin {"start", "split"}

\* C3: on an indent that rises by two or more levels the Line Splitter reports
\* the two-or-more-level-rise error: what it raises is an Error that carries
\* that diagnostic, not some other failure.
C3_IndentJumpReported ==
  (SplitRan /\ HasIndentJump) =>
     /\ pc = "thrown"
     /\ thrown # <<>>
     /\ thrown[1].name = "Error"

\* parse_toplevel has run: the loop of the Tree Lifter is over, and parse() has
\* returned or thrown
ToplevelRan == pc \in {"done", "thrown"} /\ lines # <<>> /\ index = Len(lines)

\* the children of the root of the tree
RootChildren == heap[structure_stack[1].children]

\* the names of the top-level Branch children that begin with #
RECURSIVE BranchWordNames(_)
BranchWordNames(children) ==
  IF children = <<>> THEN <<>>
  ELSE (IF is_word(Head(children)) /\ IsHeadLine(Head(children))
        THEN <<From(Head(children).content, 2)>> ELSE <<>>)
       \o BranchWordNames(Tail(children))

\* the `word has no content' errors of the top-level Leaf children that begin
\* with #
RECURSIVE LeafWordErrors(_)
LeafWordErrors(children) ==
  IF children = <<>> THEN <<>>
  ELSE (IF is_word(Head(children)) /\ ~IsHeadLine(Head(children))
        THEN <<error(Head(children), Message(MsgWordNoContent))>> ELSE <<>>)
       \o LeafWordErrors(Tail(children))

\* the names of the words of a result
WordNames(result) == [i \in 1..Len(result) |-> result[i].children[1].children[1].text]

\* the errors whose message is text
RECURSIVE ErrorsWith(_, _)
ErrorsWith(errors, text) ==
  IF errors = <<>> THEN <<>>
  ELSE (IF Head(errors).message.text = text THEN <<Head(errors)>> ELSE <<>>)
       \o ErrorsWith(Tail(errors), text)

\* C4: for every root tree parse_toplevel returns, in source order, one word
\* for each top-level Branch child that begins with #, named by the text after
\* the #; each top-level Leaf child that begins with # gives no word and one
\* `word has no content' error.
C4_EntryExtraction ==
  ToplevelRan =>
     /\ pc = "done"
     /\ "result" \in DOMAIN parsers[1]
     /\ WordNames(parsers[1].result) = BranchWordNames(RootChildren)
     /\ ErrorsWith(parsers[1].errors, MsgWordNoContent) = LeafWordErrors(RootChildren)

\* the prefixes of the property lines
P_dir == <<"d", "i", "r", ":">>
P_flag == <<"f", "l", "a", "g", ":">>
P_author == <<"a", "u", "t", "h", "o", "r", ":">>
P_valid == <<"v", "a", "l", "i", "d", ":">>
P_expire == <<"e", "x", "p", "i", "r", "e", ":">>

\* a dir value that starts with / and does not end with /
DirWellFormed(value) ==
  Len(value) >= 1 /\ value[1] = "/" /\ value[Len(value)] # "/"

\* C5: a line dir:<value> whose value starts with / and does not end with /
\* appends one dir node with that value and no error; any other dir line
\* appends no node and one error.
C5_DirValidation ==
  [][TakesLine(P_dir) =>
       IF DirWellFormed(ValueAfter(P_dir))
       THEN /\ properties' = Append(properties,
                                    DV6ElementOfChildren("dir", <<Text(ValueAfter(P_dir))>>))
            /\ parsers'[1].errors = parsers[1].errors
       ELSE /\ properties' = properties
            /\ Len(parsers'[1].errors) = Len(parsers[1].errors) + 1]_vars

\* a dir line was accepted and another rejected: one dir node, one error
C5_Witness ==
  /\ pc = "returned"
  /\ Len(elements) = 2
  /\ startsWith(elements[1].content, P_dir) /\ DirWellFormed(From(elements[1].content, 5))
  /\ startsWith(elements[2].content, P_dir) /\ ~DirWellFormed(From(elements[2].content, 5))
  /\ Len(NodesNamed(properties, "dir")) = 1
  /\ Len(parsers[1].errors) = 1

\* the fields of the author line that parse_properties is about to take
AuthorFields == split(ValueAfter(P_author), ",")

\* the field k of the author line split at ;, nothing when the field is absent
\* or empty
AuthorList(k) ==
  IF Len(AuthorFields) >= k /\ AuthorFields[k] # <<>>
  THEN split(AuthorFields[k], ";") ELSE <<>>

\* every date of the author line is well-formed
AuthorDatesWellFormed ==
  \A i \in 1..Len(AuthorList(2)) : AuthorDateRe(AuthorList(2)[i])

\* C6: an author line of up to 4 fields with operation A, R or I and
\* well-formed dates appends one author node (operation, then the dates, the
\* names, the sources) and no error; with another operation it appends one
\* error and no node.
C6_AuthorValidation ==
  [][(TakesLine(P_author) /\ Len(AuthorFields) <= 4) =>
       IF includes(author_operations, AuthorFields[1])
       THEN AuthorDatesWellFormed =>
              /\ properties' = Append(properties,
                   DV6Element("author", [operation |-> AuthorFields[1]],
                              ElementsOf("date", AuthorList(2))
                                \o ElementsOf("name", AuthorList(3))
                                \o ElementsOf("source", AuthorList(4))))
              /\ parsers'[1].errors = parsers[1].errors
       ELSE /\ properties' = properties
            /\ Len(parsers'[1].errors) = Len(parsers[1].errors) + 1]_vars

\* the two runs are over
BothRunsOver == \A p \in Runs : pc[p] \in {"done", "thrown"}

\* C7: two DV6Parser instances that parse the same text end the same way: the
\* same result, the same errors and warnings, or the same exception.
C7_Determinism ==
  BothRunsOver =>
     /\ pc[1] = pc[2]
     /\ thrown[1] = thrown[2]
     /\ parsers[1] = parsers[2]

\* both runs returned a word and diagnostics
C7_Witness ==
  /\ \A p \in Runs : pc[p] = "done"
  /\ Len(parsers[1].result) > 0
  /\ Len(parsers[2].errors) > 0
  /\ Len(parsers[2].warnings) > 0

\* the warnings of the items that are not in the known set
RECURSIVE UnknownFlagWarnings(_, _)
UnknownFlagWarnings(element, flags) ==
  IF flags = <<>> THEN <<>>
  ELSE (IF ~includes(known_flags, Head(flags))
        THEN <<error(element, MessageWith(MsgKnownFlagWarning, Head(flags)))>>
        ELSE <<>>) \o UnknownFlagWarnings(element, Tail(flags))

\* C8: a line flag:<items> appends one flag node per item, in order, and a
\* warning for exactly the items that are not in the known set.
C8_FlagWarningPolarity ==
  [][TakesLine(P_flag) =>
       /\ properties' = properties \o ElementsOf("flag", split(ValueAfter(P_flag), ","))
       /\ parsers'[1].warnings =
            parsers[1].warnings \o UnknownFlagWarnings(NextElement, split(ValueAfter(P_flag), ","))]_vars

\* C9: a valid line appends one valid node and no error when its value is a
\* day or `N day|week|month|year', and one error and no node otherwise; an
\* expire line likewise for a day; parse_properties does not throw.
C9_ValidExpireValidation ==
  [][/\ TakesLine(P_valid) =>
          /\ pc' # "thrown"
          /\ IF ValidRe(ValueAfter(P_valid))
             THEN /\ properties' = Append(properties,
                                          DV6ElementOfChildren("valid", <<Text(ValueAfter(P_valid))>>))
                  /\ parsers'[1].errors = parsers[1].errors
             ELSE /\ properties' = properties
                  /\ Len(parsers'[1].errors) = Len(parsers[1].errors) + 1
     /\ TakesLine(P_expire) =>
          /\ pc' # "thrown"
          /\ IF ExpireRe(ValueAfter(P_expire))
             THEN /\ properties' = Append(properties,
                                          DV6ElementOfChildren("expire", <<Text(ValueAfter(P_expire))>>))
                  /\ parsers'[1].errors = parsers[1].errors
             ELSE /\ properties' = properties
                  /\ Len(parsers'[1].errors) = Len(parsers[1].errors) + 1]_vars

\* the loop of the Tree Lifter threw
LiftThrew == pc = "thrown" /\ lines # <<>> /\ index < Len(lines)

\* the Tree Lifter returned
LiftReturned == pc \in {"done", "thrown"} /\ lines # <<>> /\ index = Len(lines)

\* every child of the root has indent 0, and every child of a Branch has the
\* indent of the Branch plus one
TreeIndentInvariant ==
  /\ \A i \in 1..Len(RootChildren) : RootChildren[i].indent = 0
  /\ \A r \in 1..Len(heap) : \A i \in 1..Len(heap[r]) :
       IsHeadLine(heap[r][i]) =>
         \A j \in 1..Len(heap[heap[r][i].children]) :
            heap[heap[r][i].children][j].indent = heap[r][i].indent + 1

\* C10: whenever the Line Splitter reports no error the Tree Lifter returns
\* the root Branch, and in the tree every child's indent is one more than its
\* parent's, the root counting as -1.
C10_TreeIndent ==
  /\ ~LiftThrew
  /\ LiftReturned =>
       /\ structure_stack # <<>>
       /\ structure_stack[1] = [children |-> 1]
       /\ TreeIndentInvariant

\* both indices of parse_top_children are computed
RegionsComputed == pc \in {"extended_begin", "returned", "thrown"}

\* the 0-based index of the first child of children that begins with //, the
\* length of children when there is none
FirstExtended(children) ==
  IF \E i \in 1..Len(children) : startsWith(children[i].content, <<"/", "/">>)
  THEN (CHOOSE i \in 1..Len(children) :
          /\ startsWith(children[i].content, <<"/", "/">>)
          /\ \A j \in 1..(i - 1) : ~startsWith(children[j].content, <<"/", "/">>)) - 1
  ELSE Len(children)

\* C11: in parse_top_children 0 <= contents_begin_index <= extended_begin_index
\* <= children.length, the three regions one after the other are all the
\* children, and the extended start is the first // line of the remainder
\* after the property region.
C11_RegionBoundaries ==
  RegionsComputed =>
     /\ 0 <= contents_begin
     /\ contents_begin <= extended_begin
     /\ extended_begin <= Len(elements)
     /\ slice(elements, 0, contents_begin)
          \o slice(elements, contents_begin, extended_begin)
          \o slice(elements, extended_begin, Len(elements)) = elements
     /\ extended_begin =
          contents_begin + FirstExtended(slice(elements, contents_begin, Len(elements)))

\* parse_top_children returned with three regions that each hold a child
C11_Witness ==
  /\ pc = "returned"
  /\ 0 < contents_begin
  /\ contents_begin < extended_begin
  /\ extended_begin < Len(elements)

\* no physical line of the source text is continued
NoContinuation == \A i \in 1..Len(RawLines) : ~Continued(RawLines[i])

\* the 1-based number of the physical line of an element of the tree: without
\* continuation it is the position among lines of the line it was made from
PhysicalLineNumber(element) ==
  CHOOSE i \in 1..Len(lines) : lines[i].line_index = element.line_index

\* the `word has no content' errors of the top-level Leaf children that begin
\* with #, each described by the 1-based number of its physical line
RECURSIVE LeafWordErrorsOneBased(_)
LeafWordErrorsOneBased(children) ==
  IF children = <<>> THEN <<>>
  ELSE (IF is_word(Head(children)) /\ ~IsHeadLine(Head(children))
        THEN <<[desc |-> <<PhysicalLineNumber(Head(children))>>,
                message |-> Message(MsgWordNoContent)]>>
        ELSE <<>>)
       \o LeafWordErrorsOneBased(Tail(children))

\* C12: the start line of every logical line is the 1-based index of its
\* first physical line, and a diagnostic that DV6Line.error makes for a line
\* describes it by that 1-based number, the base the Line Splitter uses.
C12_LineAttribution ==
  (SplitReturned /\ NoContinuation) =>
     /\ \A i \in 1..Len(lines) : lines[i].line_index = i
     /\ pc = "done" =>
          ErrorsWith(parsers[1].errors, MsgWordNoContent) = LeafWordErrorsOneBased(RootChildren)

\* the part of C12 about the diagnostics of DV6Line.error alone
C12_ErrorDescription ==
  (pc = "done" /\ NoContinuation) =>
     ErrorsWith(parsers[1].errors, MsgWordNoContent) = LeafWordErrorsOneBased(RootChildren)

\* the first line has indent 0 and no line has an indent more than one above
\* that of the line before it
WellIndented ==
  /\ lines # <<>>
  /\ lines[1].indent = 0
  /\ \A i \in 2..Len(lines) : lines[i].indent <= lines[i - 1].indent + 1

\* the lines of a sequence of children and of what is below them, in pre-order
RECURSIVE PreOrder(_)
PreOrder(children) ==
  IF children = <<>> THEN <<>>
  ELSE <<DV6Line(Head(children))>>
       \o (IF IsHeadLine(Head(children)) THEN PreOrder(heap[Head(children).children])
           ELSE <<>>)
       \o PreOrder(Tail(children))

\* C13: for lines whose first has indent 0 and whose indents rise by at most
\* one, the Tree Lifter does not throw; when it starts on a line the depth of
\* the stack is the indent of the line plus one; the stack is never empty and
\* its bottom is the root; the tree in pre-order is the lines processed so
\* far, and after the last line all the lines, each once.
C13_StackInvariant ==
  WellIndented =>
     /\ pc # "thrown"
     /\ structure_stack # <<>>
     /\ structure_stack[1] = [children |-> 1]
     /\ (pc = "lift" /\ index < Len(lines)) =>
           Len(structure_stack) = lines[index + 1].indent + 1
     /\ PreOrder(RootChildren) = SubSeq(lines, 1, index)
     /\ pc = "lifted" => index = Len(lines)

\* the Tree Lifter returned the tree of four lines that rise to indent 2 and
\* fall back to 0
C13_Witness ==
  /\ pc = "lifted"
  /\ WellIndented
  /\ Len(lines) = 4
  /\ lines[3].indent = 2
  /\ lines[4].indent = 0
  /\ Len(RootChildren) = 2
  /\ PreOrder(RootChildren) = lines

====
